---- MODULE Spec2Model ----
(***************************************************************************)
(* NAVIA real-time detection client: the socket session manager            *)
(* (RealtimeWebSocket), the narration arbiter's state (RealtimeTtsManager) *)
(* and the React hook that owns them (useRealtimeDetection).               *)
(*                                                                         *)
(* JavaScript runs every handler to completion on one cooperative          *)
(* scheduler, so each handler (API call, socket event, timer callback,     *)
(* effect run) is one atomic action.                                       *)
(***************************************************************************)
EXTENDS Integers, Sequences, FiniteSets, TLC

\* ---------------------------------------------------------------- bounds
MaxSessions == 2      \* RealtimeWebSocket objects alive at once
MaxLive     == 2      \* sockets not yet closed plus pending timers, at once
MaxFrames   == 1      \* sendFrame() calls; the n-th call carries payload n
MaxLog      == 2      \* messages on one socket beyond which the controller stops sending
MaxTasks    == 2      \* speakResult invocations suspended at once
MaxClock    == 3      \* clock advances
MaxShots    == 2      \* takePictureAsync calls
MaxMsgs     == 2      \* inbound messages; the n-th message delivered has number n

\* ------------------------------------------------------ program constants
DefaultMaxReconnectAttempts == 5
BaseDelay == 2000
TtsMinInterval == 3000

\* NaviaMode values used by the real-time session
Modes == {"navegacion", "riesgo"}

\* summaries and alert texts of the detection results
Texts == {"", "turn left", "obstacle ahead"}
\* the time that passes between two events, in ms
ClockSteps == {500, 2700}

NoSocket     == 0
\* Date.now() when the program starts: later than TtsMinInterval after the epoch
Epoch == 2 * TtsMinInterval
ClosedSocket == -1    \* a reference to a socket that has closed for good

VARIABLES
  sess,         \* RealtimeWebSocket objects: [1..MaxSessions -> record]
  socks,        \* WebSocket objects not yet closed: [1..MaxLive -> record]
  timers,       \* pending setTimeout callbacks, in the order they were set
  wsStatus,     \* last value passed to the status handler (setWsStatus)
  dispatching,  \* socket whose error event ran and whose close event is next
  hook,         \* useRealtimeDetection: props and refs
  tts,          \* RealtimeTtsManager fields
  hist,         \* history of the run (dropped frames, statuses, ...)
  speech,       \* the speech device (expo-speech): utterances handed to it, in order
  tasks,        \* suspended speakResult invocations (async functions at an await)
  now,          \* Date.now()
  captures      \* takePictureAsync calls that have not settled

vars == <<sess, socks, timers, wsStatus, dispatching, hook, tts, hist, speech, tasks, now, captures>>

SessionIds == 1..MaxSessions
SocketIds  == 1..MaxLive

\* ------------------------------------------------------------ constructors
\* the detection handler given to the constructor: the hook's handleDetection, which
\* closes over the ttsEnabled and mode props of the render that made it, or a
\* handler of some other controller, of which only the calls are recorded
ControllerHandler == [hook |-> FALSE, ttsEnabled |-> FALSE, mode |-> "navegacion"]
HandleDetection(t, m) == [hook |-> TRUE, ttsEnabled |-> t, mode |-> m]

\* class field initialisers and constructor of RealtimeWebSocket.
\* reconnectTimer: FALSE is null, TRUE a timer handle; the pending timer the handle
\* names, if it is still pending, is the one marked `held` in timers.
NewSession(mode) ==
  [ exists               |-> TRUE,
    ws                   |-> NoSocket,
    mode                 |-> mode,
    reconnectAttempts    |-> 0,
    maxReconnectAttempts |-> DefaultMaxReconnectAttempts,
    frameId              |-> 0,
    reconnectTimer       |-> FALSE,
    onDetection          |-> ControllerHandler ]

\* a slot of the heap that holds no RealtimeWebSocket
Unborn == [NewSession("navegacion") EXCEPT !.exists = FALSE]

\* new WebSocket(wsUrl), with the handlers of session k attached
\* (failedFrom: the readyState the socket had when its error event was dispatched)
NewSocket(k) == [owner |-> k, readyState |-> "CONNECTING", sent |-> <<>>, failedFrom |-> "none"]

\* a slot that holds no socket: a socket leaves its slot when its close event has run,
\* after which it never changes again
FreeSlot == [owner |-> 0, readyState |-> "CLOSED", sent |-> <<>>, failedFrom |-> "none"]

\* field initialisers of RealtimeTtsManager
NewTts == [lastSpeakTime |-> 0, isSpeaking |-> FALSE, mode |-> "navegacion", lastSummary |-> ""]

\* useState / useRef initial values of the hook, before it is mounted
NewHook ==
  [ phase       |-> "new",      \* "new", "mounted" or "unmounted"
    enabled     |-> FALSE,
    mode        |-> "navegacion",
    ttsEnabled  |-> TRUE,
    wsRef       |-> 0,
    intervalRef |-> FALSE,    \* intervalRef.current is a timer handle
    intervals   |-> 0,        \* setInterval timers that were never cleared
    isCapturing |-> FALSE,
    latestResult |-> 0,
    \* the web client's hook (render loop instead of the interval)
    targetFps   |-> 0,        \* the targetFps prop of the last render
    animFrameRef |-> FALSE,   \* animFrameRef.current is a pending requestAnimationFrame handle
    intervalMs  |-> 0,        \* intervalMs of the captureLoop closure that is running
    lastCaptureTime |-> 0 ]   \* lastCaptureTime.current

NewHist ==
  [ nFrames    |-> 0,       \* sendFrame() calls so far
    requested  |-> [k \in SessionIds |-> [mode |-> "navegacion", offline |-> FALSE]],
                            \* mode last asked of session k, and whether that setMode
                            \* call found the session not connected
    dropped    |-> {},      \* payloads of the sendFrame calls that returned early
    fails      |-> [k \in SessionIds |-> 0],  \* close events of session k since its last open
    reopened   |-> [k \in SessionIds |-> FALSE],  \* a socket of session k opened after disconnect() was called on it
    tail       |-> <<>>,    \* statuses since the last unexpected close of an open socket
    started    |-> <<>>,    \* the last doSpeak call since the last reset(): its text, its time, whether it is a critical alert, the time of the one before
    failed     |-> FALSE,   \* the device reported an error since the last doSpeak call
    critAt     |-> 0,       \* when the last doSpeak call was made, if it was for a critical alert (0 otherwise); reset() leaves it
    suppressed |-> <<>>,    \* the navigation result the cooldown rejected last, since the last doSpeak call (noted in SpecNav)
    ticks      |-> 0,       \* clock advances so far
    shots      |-> 0,       \* takePictureAsync calls so far
    slotAt     |-> 0,       \* when captureLoop last found a capture due (0: never)
    sentAt     |-> 0,       \* when captureLoop last called sendFrame (0: never)
    shotBy     |-> 0,       \* wsRef.current when the last of them was made, 0 once that session has been stopped
    settled    |-> "none",  \* how the last takePictureAsync call to settle did so
    inbound    |-> 0,       \* inbound messages delivered so far
    handled    |-> <<>>,    \* numbers of the messages passed to a detection handler, in order
    wire       |-> [k \in SessionIds |-> <<>>] ]
                            \* frame identifiers session k has put on the wire, in order

\* ------------------------------------------------------------ socket layer
IsSlot(s) == s \in SocketIds

\* WebSocket.send: transmits on an OPEN socket; nothing reaches the wire otherwise
\* (CONNECTING throws, CLOSING/CLOSED discards)
WsSend(ss, s, msg) ==
  IF IsSlot(s) /\ ss[s].readyState = "OPEN"
  THEN [ss EXCEPT ![s].sent = Append(@, msg)]
  ELSE ss

\* WebSocket.close(): CONNECTING/OPEN -> CLOSING; no-op when CLOSING/CLOSED
WsClose(ss, s) ==
  IF IsSlot(s) /\ ss[s].readyState \in {"CONNECTING", "OPEN"}
  THEN [ss EXCEPT ![s].readyState = "CLOSING"]
  ELSE ss

ConfigMsg(mode) == [type |-> "config", mode |-> mode]
FrameMsg(data, id) == [type |-> "frame", data |-> data, frame_id |-> id]

\* ws?.readyState === WebSocket.OPEN
IsOpen(ss, s) == IsSlot(s) /\ ss[s].readyState = "OPEN"

FreeSlots == {s \in SocketIds : socks[s].owner = 0}
\* the slot a new socket takes
NextSlot == CHOOSE s \in FreeSlots : \A u \in FreeSlots : s <= u

\* ------------------------------------------------- RealtimeWebSocket: helpers
\* messages the onopen handler sends
OpenMessagesNone(mode) == <<>>
OpenMessages(mode) == <<ConfigMsg(mode)>>

\* delay of the reconnect attempt number n
ReconnectDelayFlat(n) == BaseDelay
ReconnectDelay(n) == BaseDelay * n

\* attemptReconnect's guard, negated: attempts still below the cap
MayReconnectOneMore(attempts, max) == attempts <= max
MayReconnect(attempts, max) == attempts < max

\* this.onStatus(st): the handler is setWsStatus in every caller of this repository
EmitStatus(st) == wsStatus' = st

\* statuses since the last unexpected close of an open socket (history)
TailPut(h, st) ==
  IF h.tail # <<>> /\ Len(h.tail) < 3 THEN [h EXCEPT !.tail = Append(@, st)] ELSE h

\* the sockets of session k that are connecting or open
LiveSockets(ss, k) ==
  {s \in SocketIds : ss[s].owner = k /\ ss[s].readyState \in {"CONNECTING", "OPEN"}}

\* the pending timers whose callback is session k's connect()
PendingTimers(tm, k) == {i \in 1..Len(tm) : tm[i].owner = k}

\* connect(): status 'connecting', a new socket with the object's handlers attached
DoConnect(k, se, h) ==
  /\ FreeSlots # {}
  /\ EmitStatus("connecting")
  /\ socks' = [socks EXCEPT ![NextSlot] = NewSocket(k)]
  /\ sess' = [se EXCEPT ![k].ws = NextSlot]
  /\ hist' = TailPut(h, "connecting")

\* this.reconnectTimer = setTimeout(...): the new timer is the one the handle names
SetTimer(tm, k, delay) ==
  Append([i \in 1..Len(tm) |-> IF tm[i].owner = k THEN [tm[i] EXCEPT !.held = FALSE] ELSE tm[i]],
         [owner |-> k, delay |-> delay, held |-> TRUE])

\* attemptReconnect(), as called by the onclose handler of a socket of session k
AttemptReconnect(k, se) ==
  IF MayReconnect(se[k].reconnectAttempts, se[k].maxReconnectAttempts)
  THEN /\ sess' = [se EXCEPT ![k].reconnectAttempts = @ + 1,
                             ![k].reconnectTimer = TRUE]
       /\ timers' = SetTimer(timers, k, ReconnectDelay(se[k].reconnectAttempts + 1))
  ELSE /\ sess' = se
       /\ UNCHANGED timers

\* ------------------------------------------ RealtimeWebSocket: controller calls
\* connect(), called by the controller
Connect(k) ==
  /\ dispatching = NoSocket
  /\ sess[k].exists
  /\ Cardinality(SocketIds \ FreeSlots) + Len(timers) < MaxLive
  /\ DoConnect(k, sess, [hist EXCEPT !.tail = <<>>])
  /\ UNCHANGED <<timers, dispatching, hook, tts, speech, tasks, now, captures>>

\* what setMode does to the socket: a config message when it is open
SetModeSendsNothing(ss, s, mode) == ss
SetModeSends(ss, s, mode) == IF IsOpen(ss, s) THEN WsSend(ss, s, ConfigMsg(mode)) ELSE ss

\* the mode setMode stores
SetModeStoresWhenOpen(old, mode, open) == IF open THEN mode ELSE old
SetModeStores(old, mode, open) == mode

\* the controller goes on sending while the socket's log is short
RoomInLog(k) == IF IsSlot(sess[k].ws) THEN Len(socks[sess[k].ws].sent) < MaxLog ELSE TRUE

\* setMode(mode)
SetMode(k, mode) ==
  /\ dispatching = NoSocket
  /\ sess[k].exists
  /\ RoomInLog(k)
  /\ sess' = [sess EXCEPT ![k].mode = SetModeStores(@, mode, IsOpen(socks, sess[k].ws))]
  /\ socks' = SetModeSends(socks, sess[k].ws, mode)
  /\ hist' = [hist EXCEPT !.requested[k] = [mode |-> mode, offline |-> ~IsOpen(socks, sess[k].ws)]]
  /\ UNCHANGED <<timers, wsStatus, dispatching, hook, tts, speech, tasks, now, captures>>

\* sendFrame's early return: the frame is dropped unless the socket is open
FrameAcceptedWhileConnecting(ss, s) ==
  IsSlot(s) /\ ss[s].readyState \in {"CONNECTING", "OPEN"}
FrameAccepted(ss, s) == IsOpen(ss, s)

\* this.frameId++
NextFrameIdSkips(id) == id + 2
NextFrameId(id) == id + 1

\* sendFrame(base64Data), with the payload `data`
DoSendFrame(k, data, h) ==
  IF FrameAccepted(socks, sess[k].ws)
  THEN /\ sess' = [sess EXCEPT ![k].frameId = NextFrameId(@)]
       /\ socks' = WsSend(socks, sess[k].ws, FrameMsg(data, NextFrameId(sess[k].frameId)))
       /\ hist' = [h EXCEPT !.nFrames = @ + 1,
                            !.wire[k] = IF IsOpen(socks, sess[k].ws)
                                        THEN Append(@, NextFrameId(sess[k].frameId))
                                        ELSE @]
  ELSE /\ UNCHANGED <<sess, socks>>
       /\ hist' = [h EXCEPT !.nFrames = @ + 1, !.dropped = @ \cup {data}]

SendFrame(k) ==
  /\ dispatching = NoSocket
  /\ sess[k].exists
  /\ hist.nFrames < MaxFrames
  /\ RoomInLog(k)
  /\ DoSendFrame(k, hist.nFrames + 1, hist)
  /\ UNCHANGED <<timers, wsStatus, dispatching, hook, tts, speech, tasks, now, captures>>

\* what disconnect() does to the pending timers: clearTimeout(this.reconnectTimer)
DisconnectClears(tm, k) ==
  LET Keep(t) == ~(t.owner = k /\ t.held) IN SelectSeq(tm, Keep)

\* this.maxReconnectAttempts = 0 in disconnect()
CapAfterDisconnectKept(n) == n
CapAfterDisconnect(n) == 0

\* disconnect() on session k, as a state change of sess, timers and socks
DoDisconnect(k, se) ==
  /\ timers' = DisconnectClears(timers, k)
  /\ socks' = WsClose(socks, se[k].ws)
  /\ sess' = [se EXCEPT ![k].maxReconnectAttempts = CapAfterDisconnect(@),
                        ![k].reconnectTimer = FALSE,
                        ![k].ws = NoSocket]

\* disconnect(), called by the controller
Disconnect(k) ==
  /\ dispatching = NoSocket
  /\ sess[k].exists
  /\ DoDisconnect(k, sess)
  /\ hist' = [hist EXCEPT !.tail = <<>>]
  /\ UNCHANGED <<wsStatus, dispatching, hook, tts, speech, tasks, now, captures>>

\* ---------------------------------------------------- RealtimeWebSocket: events
\* the socket the onopen handler writes to is this.ws, whatever socket opened
SendAll(ss, s, msgs) ==
  IF msgs = <<>> THEN ss ELSE WsSend(ss, s, msgs[1])

\* this.reconnectAttempts = 0 in the onopen handler
AttemptsAfterOpenKept(n) == n
AttemptsAfterOpen(n) == 0

\* ws.onopen of socket s
SocketOpen(s) ==
  /\ dispatching = NoSocket
  /\ socks[s].owner # 0
  /\ socks[s].readyState = "CONNECTING"
  /\ LET k  == socks[s].owner
         ss == [socks EXCEPT ![s].readyState = "OPEN"]
     IN /\ sess' = [sess EXCEPT ![k].reconnectAttempts = AttemptsAfterOpen(@)]
        /\ EmitStatus("connected")
        /\ socks' = SendAll(ss, sess[k].ws, OpenMessages(sess[k].mode))
        /\ hist' = [TailPut(hist, "connected") EXCEPT
                      !.fails[k] = 0,
                      !.reopened[k] = @ \/ sess[k].maxReconnectAttempts = 0]
  /\ UNCHANGED <<timers, dispatching, hook, tts, speech, tasks, now, captures>>

\* the status the onerror handler reports
ErrorStatus == "error"

\* the connection fails: the socket is CLOSED, ws.onerror runs, and the close event
\* of the same socket is dispatched next
SocketError(s) ==
  /\ dispatching = NoSocket
  /\ socks[s].owner # 0
  /\ socks[s].readyState \in {"CONNECTING", "OPEN", "CLOSING"}
  /\ socks' = [socks EXCEPT ![s].readyState = "CLOSED", ![s].failedFrom = socks[s].readyState]
  /\ EmitStatus(ErrorStatus)
  /\ dispatching' = s
  /\ hist' = TailPut(hist, ErrorStatus)
  /\ UNCHANGED <<sess, timers, hook, tts, speech, tasks, now, captures>>

\* the close event starts a reconnect scenario: an open socket of a session on which
\* disconnect() was never called
UnexpectedCloseOfOpen(s, from) ==
  /\ from = "OPEN"
  /\ sess[socks[s].owner].maxReconnectAttempts = DefaultMaxReconnectAttempts

\* the references to socket s read as references to a closed socket
Collect(se, s) == [k \in SessionIds |-> IF se[k].ws = s THEN [se[k] EXCEPT !.ws = ClosedSocket] ELSE se[k]]

\* ws.onclose of socket s: after its error event, or a close of an open or closing socket
SocketClose(s) ==
  /\ socks[s].owner # 0
  /\ IF dispatching = NoSocket THEN socks[s].readyState \in {"OPEN", "CLOSING"}
                               ELSE dispatching = s
  /\ LET k    == socks[s].owner
         from == IF dispatching = s THEN socks[s].failedFrom ELSE socks[s].readyState
     IN /\ socks' = [socks EXCEPT ![s] = FreeSlot]
        /\ dispatching' = NoSocket
        /\ EmitStatus("disconnected")
        /\ AttemptReconnect(k, Collect(sess, s))
        /\ hist' = [ (IF UnexpectedCloseOfOpen(s, from)
                      THEN [hist EXCEPT !.tail = <<"disconnected">>]
                      ELSE TailPut(hist, "disconnected"))
                     EXCEPT !.fails[k] = IF @ <= DefaultMaxReconnectAttempts THEN @ + 1 ELSE @ ]
  /\ UNCHANGED <<hook, tts, speech, tasks, now, captures>>

\* setTimeout fires callbacks in deadline order: a timer set earlier with a delay
\* no longer than timer i's fires before it
Due(i) == \A j \in 1..(i - 1) : timers[j].delay > timers[i].delay

\* the reconnect timer's callback: () => this.connect()
TimerFire(i) ==
  /\ dispatching = NoSocket
  /\ Due(i)
  /\ timers' = [j \in 1..(Len(timers) - 1) |-> IF j < i THEN timers[j] ELSE timers[j + 1]]
  /\ DoConnect(timers[i].owner, sess, hist)
  /\ UNCHANGED <<dispatching, hook, tts, speech, tasks, now, captures>>

\* ------------------------------------------------------------- specification
\* one RealtimeWebSocket, constructed with some mode, driven through its public
\* methods by an arbitrary controller
Init ==
  /\ \E m \in Modes :
       /\ sess = [k \in SessionIds |-> IF k = 1 THEN NewSession(m) ELSE Unborn]
       /\ hist = [NewHist EXCEPT !.requested[1].mode = m]
  /\ socks = [s \in SocketIds |-> FreeSlot]
  /\ timers = <<>>
  /\ wsStatus = "disconnected"
  /\ dispatching = NoSocket
  /\ hook = NewHook
  /\ tts = NewTts
  /\ speech = <<>>
  /\ tasks = <<>>
  /\ now = Epoch
  /\ captures = 0

Next ==
  \/ \E k \in SessionIds : Connect(k)
  \/ \E k \in SessionIds : \E m \in Modes : SetMode(k, m)
  \/ \E k \in SessionIds : SendFrame(k)
  \/ \E k \in SessionIds : Disconnect(k)
  \/ \E s \in SocketIds : SocketOpen(s)
  \/ \E s \in SocketIds : SocketError(s)
  \/ \E s \in SocketIds : SocketClose(s)
  \/ \E i \in 1..Len(timers) : TimerFire(i)

Spec == Init /\ [][Next]_vars

\* ------------------------------------------------------------ speech device
\* Speech.stop(): interrupts the current utterance and deletes the queued ones.
\* A stopped utterance calls neither onDone nor onError, so the doSpeak invocation
\* that waits for it never resumes.
SpeechStop(sp) == <<>>

\* Speech.speak(text, ...): the utterance is spoken now when the device is idle and
\* queued behind the outstanding ones otherwise
SpeechSpeak(sp, text) == Append(sp, text)

\* ------------------------------------------------------ RealtimeTtsManager
\* setMode(mode)
TtsSetModeClearsFlag(tt, mode) == [tt EXCEPT !.mode = mode, !.isSpeaking = FALSE]
TtsSetMode(tt, mode) == [tt EXCEPT !.mode = mode]
\* stop(): Speech.stop(); isSpeaking = false
TtsStopKeepsFlag(tt) == tt
TtsStop(tt) == [tt EXCEPT !.isSpeaking = FALSE]
\* reset(): stop(); lastSpeakTime = 0; lastSummary = ''
TtsResetKeepsSummary(tt) == [TtsStop(tt) EXCEPT !.lastSpeakTime = 0]
TtsReset(tt) == [TtsStop(tt) EXCEPT !.lastSpeakTime = 0, !.lastSummary = ""]

\* the riskData argument of speakResult; `given` is FALSE when it is undefined
RiskInputs ==
  [given : {TRUE}, has_danger : BOOLEAN, priority : {"critical", "high"}, alert_text : Texts]
  \cup {[given |-> FALSE, has_danger |-> FALSE, priority |-> "none", alert_text |-> ""]}

\* riskData undefined
NoRiskData == [given |-> FALSE, has_danger |-> FALSE, priority |-> "none", alert_text |-> ""]

\* now - this.lastSpeakTime < REALTIME_CONFIG.ttsMinInterval, negated
CooldownAlwaysOver(tt, t) == TRUE
CooldownOver(tt, t) == ~(t - tt.lastSpeakTime < TtsMinInterval)

\* speakNavigationSummary's first two guards, negated: the summary is new or the
\* change is significant, and the summary is not empty
NovelIgnoresChange(tt, summary, significant) == summary # tt.lastSummary /\ summary # ""
Novel(tt, summary, significant) ==
  /\ ~(~significant /\ summary = tt.lastSummary)
  /\ summary # ""

\* speakRiskAlert's first guard, negated
HasAlertWithoutDanger(risk) == risk.given /\ risk.alert_text # ""
HasAlert(risk) == risk.given /\ risk.has_danger /\ risk.alert_text # ""

\* riskData.priority === 'critical'
IsCritical(risk) == risk.priority = "critical"

\* a speakResult invocation suspended at an await of Speech.stop(): pc "interrupt"
\* is the await of speakRiskAlert's critical branch, pc "doSpeak" the one in doSpeak;
\* `critical` tells whether the invocation speaks a critical alert
Task(pc, text, crit) == [pc |-> pc, text |-> text, critical |-> crit]

\* this.lastSpeakTime = Date.now()
StampNot(tt, t) == tt
Stamp(tt, t) == [tt EXCEPT !.lastSpeakTime = t]

\* doSpeak(text), up to its first await: the flag, the time stamp, Speech.stop()
\* called, and the invocation suspended (recorded in the history as a start)
DoSpeak(tt, tk, text, crit, h) ==
  /\ tts' = [Stamp(tt, now) EXCEPT !.isSpeaking = TRUE]
  /\ speech' = SpeechStop(speech)
  /\ tasks' = Append(tk, Task("doSpeak", text, crit))
  /\ hist' = [h EXCEPT !.started =
                 <<[text |-> text, at |-> now, critical |-> crit,
                    prev |-> IF @ = <<>> THEN 0 ELSE @[1].at]>>,
                           !.failed = FALSE,
                           !.critAt = IF crit THEN now ELSE 0,
                           !.suppressed = <<>>]

\* speakNavigationSummary's early returns: the fields stay as they are
EarlyReturnRemembers(tt, summary) == [tt EXCEPT !.lastSummary = summary]
EarlyReturn(tt, summary) == tt

\* speakNavigationSummary(summary, changes)
SpeakNavigationSummary(summary, significant, h) ==
  IF Novel(tts, summary, significant) /\ CooldownOver(tts, now) /\ ~tts.isSpeaking
  THEN DoSpeak([tts EXCEPT !.lastSummary = summary], tasks, summary, FALSE, h)
  ELSE /\ tts' = EarlyReturn(tts, summary)
       /\ hist' = h
       /\ UNCHANGED <<speech, tasks>>

\* speakRiskAlert(riskData)
SpeakRiskAlert(risk, h) ==
  IF ~HasAlert(risk) THEN hist' = h /\ UNCHANGED <<tts, speech, tasks>>
  ELSE IF IsCritical(risk)
       THEN \* await Speech.stop(): the rest runs when the stop has finished
            /\ speech' = SpeechStop(speech)
            /\ tasks' = Append(tasks, Task("interrupt", risk.alert_text, TRUE))
            /\ hist' = h
            /\ UNCHANGED tts
       ELSE IF CooldownOver(tts, now) /\ ~tts.isSpeaking
            THEN DoSpeak(tts, tasks, risk.alert_text, FALSE, h)
            ELSE hist' = h /\ UNCHANGED <<tts, speech, tasks>>

\* speakResult(summary, changes, riskData), up to its first await
DoSpeakResult(summary, significant, risk, h) ==
  IF tts.mode = "riesgo" THEN SpeakRiskAlert(risk, h)
                         ELSE SpeakNavigationSummary(summary, significant, h)

\* speakResult called with arbitrary arguments
SpeakResult(summary, significant, risk) ==
  /\ Len(tasks) < MaxTasks
  /\ DoSpeakResult(summary, significant, risk, hist)
  /\ UNCHANGED <<sess, socks, timers, wsStatus, dispatching, hook, now, captures>>

Without(tk, i) == [j \in 1..(Len(tk) - 1) |-> IF j < i THEN tk[j] ELSE tk[j + 1]]

\* the Speech.stop() promise of suspended invocation i resolves: the critical branch
\* clears the flag and enters doSpeak; doSpeak hands the utterance to the device.
\* The device settles the stop calls in the order they were made, which is the order
\* of `tasks`.
StopResolved(i) ==
  /\ i = 1
  /\ IF tasks[i].pc = "interrupt"
     THEN DoSpeak([tts EXCEPT !.isSpeaking = FALSE], Without(tasks, i), tasks[i].text, TRUE, hist)
     ELSE /\ speech' = SpeechSpeak(speech, tasks[i].text)
          /\ tasks' = Without(tasks, i)
          /\ UNCHANGED <<tts, hist>>
  /\ UNCHANGED <<sess, socks, timers, wsStatus, dispatching, hook, now, captures>>

\* doSpeak after the utterance's promise resolved: finally { this.isSpeaking = false }
UtteranceEndKeepsFlag(tt) == tt
UtteranceEnd(tt) == [tt EXCEPT !.isSpeaking = FALSE]

\* the device finishes the utterance it is speaking: onDone
SpeechDone ==
  /\ speech # <<>>
  /\ speech' = Tail(speech)
  /\ tts' = UtteranceEnd(tts)
  /\ UNCHANGED <<sess, socks, timers, wsStatus, dispatching, hook, hist, tasks, now, captures>>

\* the device fails on the utterance it is speaking: onError
SpeechError ==
  /\ speech # <<>>
  /\ speech' = Tail(speech)
  /\ tts' = UtteranceEnd(tts)
  /\ hist' = [hist EXCEPT !.failed = TRUE]
  /\ UNCHANGED <<sess, socks, timers, wsStatus, dispatching, hook, tasks, now, captures>>

\* setMode(mode), called by the hook's mode effect
ManagerSetMode(mode) ==
  /\ tts' = TtsSetMode(tts, mode)
  /\ UNCHANGED <<sess, socks, timers, wsStatus, dispatching, hook, hist, speech, tasks, now, captures>>

\* stop()
ManagerStop ==
  /\ tts' = TtsStop(tts)
  /\ speech' = SpeechStop(speech)
  /\ UNCHANGED <<sess, socks, timers, wsStatus, dispatching, hook, hist, tasks, now, captures>>

\* reset()
ManagerReset ==
  /\ tts' = TtsReset(tts)
  /\ speech' = SpeechStop(speech)
  /\ hist' = [hist EXCEPT !.started = <<>>, !.failed = FALSE]
  /\ UNCHANGED <<sess, socks, timers, wsStatus, dispatching, hook, tasks, now, captures>>

\* time passes
Advance(d) ==
  /\ hist.ticks < MaxClock
  /\ now' = now + d
  /\ hist' = [hist EXCEPT !.ticks = @ + 1]
  /\ UNCHANGED <<sess, socks, timers, wsStatus, dispatching, hook, tts, speech, tasks, captures>>

\* the arbiter, fed with arbitrary results at arbitrary times, and its speech device
NextTts ==
  \/ \E s \in Texts : \E g \in BOOLEAN : \E r \in RiskInputs : SpeakResult(s, g, r)
  \/ \E i \in 1..Len(tasks) : StopResolved(i)
  \/ SpeechDone
  \/ SpeechError
  \/ \E m \in Modes : ManagerSetMode(m)
  \/ ManagerStop
  \/ ManagerReset
  \/ \E d \in ClockSteps : Advance(d)

SpecTts == Init /\ [][NextTts]_vars

\* a navigation result arrives; the history notes it when the cooldown is what
\* rejects it (the change test passed and less than ttsMinInterval has gone by)
NavResult(summary, significant) ==
  /\ Len(tasks) < MaxTasks
  /\ DoSpeakResult(summary, significant, NoRiskData,
                   IF Novel(tts, summary, significant) /\ ~CooldownOver(tts, now)
                   THEN [hist EXCEPT !.suppressed =
                           <<[summary |-> summary, significant |-> significant]>>]
                   ELSE hist)
  /\ UNCHANGED <<sess, socks, timers, wsStatus, dispatching, hook, now, captures>>

\* the arbiter fed with navigation results, in either mode
NextNav ==
  \/ \E s \in Texts : \E g \in BOOLEAN : NavResult(s, g)
  \/ \E i \in 1..Len(tasks) : StopResolved(i)
  \/ SpeechDone
  \/ SpeechError
  \/ \E m \in Modes : ManagerSetMode(m)
  \/ ManagerStop
  \/ ManagerReset
  \/ \E d \in ClockSteps : Advance(d)

SpecNav == Init /\ [][NextNav]_vars

\* ------------------------------------------------------- inbound messages
\* event.data of a message event: a detection result, JSON of some other type, or
\* text that JSON.parse rejects
Detections ==
  [kind : {"detection"}, summary : Texts, significant : BOOLEAN, has_danger : BOOLEAN,
   priority : {"critical", "high"}]
OtherMsg == [kind |-> "other", summary |-> "", significant |-> FALSE, has_danger |-> FALSE,
             priority |-> "high"]
MalformedMsg == [OtherMsg EXCEPT !.kind = "malformed"]
NonDetections == {OtherMsg, MalformedMsg}

\* the results the service sends in the specifications below: a hazard 'turn left',
\* as a critical and as a high alert
SessionResults ==
  {d \in Detections : d.summary = "turn left" /\ ~d.significant /\ d.has_danger}

\* the messages the sockets deliver in SpecInbound
InboundMsgs == SessionResults \cup NonDetections

\* onmessage's test: JSON.parse succeeds and msg.type === 'detection'
ForwardedUnlessMalformed(msg) == msg.kind # "malformed"
ForwardedAlways(msg) == TRUE
Forwarded(msg) == msg.kind = "detection"

\* the riskData argument handleDetection builds: present only when the mode prop of
\* its render is 'riesgo', with the summary as alert text
RiskData(mode, msg) ==
  IF mode = "riesgo"
  THEN [given |-> TRUE, has_danger |-> msg.has_danger, priority |-> msg.priority,
        alert_text |-> msg.summary]
  ELSE NoRiskData

\* this.onDetection(msg) of session k for message number n: the hook's
\* handleDetection stores the result and, when ttsEnabled, calls speakResult without
\* awaiting it; another controller's handler is only recorded
OnDetection(k, n, msg, h) ==
  LET f == sess[k].onDetection
  IN IF ~f.hook
     THEN hist' = h /\ UNCHANGED <<hook, tts, speech, tasks>>
     ELSE /\ hook' = IF hook.phase = "mounted" THEN [hook EXCEPT !.latestResult = n] ELSE hook
          /\ IF f.ttsEnabled
             THEN DoSpeakResult(msg.summary, msg.significant, RiskData(f.mode, msg), h)
             ELSE hist' = h /\ UNCHANGED <<tts, speech, tasks>>

\* ws.onmessage of socket s: a socket delivers messages while it is open
SocketMessage(s, msg) ==
  /\ dispatching = NoSocket
  /\ socks[s].owner # 0
  /\ socks[s].readyState = "OPEN"
  /\ hist.inbound < MaxMsgs
  /\ Len(tasks) < MaxTasks
  /\ LET n == hist.inbound + 1
         h == [hist EXCEPT !.inbound = n]
     IN IF Forwarded(msg)
        THEN OnDetection(socks[s].owner, n, msg, [h EXCEPT !.handled = Append(@, n)])
        ELSE hist' = h /\ UNCHANGED <<hook, tts, speech, tasks>>
  /\ UNCHANGED <<sess, socks, timers, wsStatus, dispatching, now, captures>>

\* one RealtimeWebSocket driven by an arbitrary controller, with the messages its
\* sockets deliver
NextInbound ==
  \/ Next
  \/ \E s \in SocketIds : \E msg \in InboundMsgs : SocketMessage(s, msg)

SpecInbound == Init /\ [][NextInbound]_vars

\* ---------------------------------------------------- useRealtimeDetection
\* a RealtimeWebSocket nothing refers to any more: not wsRef.current, and no
\* socket handler or timer callback of it is left
Garbage(k) ==
  /\ hook.wsRef # k
  /\ \A s \in SocketIds : socks[s].owner # k
  /\ PendingTimers(timers, k) = {}

FreeSessions == {k \in SessionIds : ~sess[k].exists \/ Garbage(k)}

\* wsRef.current?.disconnect(), on the sessions, the sockets and the timers.
\* The hook drops its reference right after, and the session's socket, being
\* closed, delivers no more messages: the handler is not called again, and the
\* closure is forgotten here.
RefDisconnectSess(se, k) ==
  IF k = 0 THEN se
  ELSE [se EXCEPT ![k].maxReconnectAttempts = 0, ![k].reconnectTimer = FALSE, ![k].ws = NoSocket,
                  ![k].onDetection = ControllerHandler]
RefDisconnectSocks(se, ss, k) == IF k = 0 THEN ss ELSE WsClose(ss, se[k].ws)
RefDisconnectTimers(tm, k) == IF k = 0 THEN tm ELSE DisconnectClears(tm, k)

\* if (intervalRef.current) { clearInterval(intervalRef.current); intervalRef.current = null }
ClearIntervalForgetsTimer(h) == [h EXCEPT !.intervalRef = FALSE]
ClearInterval(h) ==
  IF h.intervalRef THEN [h EXCEPT !.intervalRef = FALSE, !.intervals = @ - 1] ELSE h

\* clearInterval(intervalRef.current); intervalRef.current = null;
\* wsRef.current?.disconnect(); wsRef.current = null
\* (shared by the effect's cleanup function and by its else branch)
Teardown(run) ==
  IF run
  THEN [ sess   |-> RefDisconnectSess(sess, hook.wsRef),
         socks  |-> RefDisconnectSocks(sess, socks, hook.wsRef),
         timers |-> RefDisconnectTimers(timers, hook.wsRef),
         hook   |-> [ClearInterval(hook) EXCEPT !.wsRef = 0] ]
  ELSE [ sess |-> sess, socks |-> socks, timers |-> timers, hook |-> hook ]

\* the session effect's body when enabled, after the state `c`:
\* new RealtimeWebSocket(handleDetection, setWsStatus, mode); connect(); setInterval(...)
StartSession(c, m, tt) ==
  LET frees == FreeSessions \ {hook.wsRef}
      slots == {s \in SocketIds : c.socks[s].owner = 0}
  IN /\ frees # {}
     /\ slots # {}
     /\ LET k == CHOOSE j \in frees : \A i \in frees : j <= i
            s == CHOOSE u \in slots : \A v \in slots : u <= v
        IN /\ sess' = [c.sess EXCEPT ![k] = [NewSession(m) EXCEPT !.ws = s,
                                           !.onDetection = HandleDetection(c.hook.ttsEnabled, m)]]
           /\ socks' = [c.socks EXCEPT ![s] = NewSocket(k)]
           /\ hook' = [c.hook EXCEPT !.wsRef = k, !.intervalRef = TRUE, !.intervals = @ + 1]
           /\ hist' = [hist EXCEPT !.tail = <<>>,
                                   !.fails[k] = 0,
                                   !.shotBy = 0,
                                   !.wire[k] = <<>>,
                                   !.requested[k] = [mode |-> m, offline |-> FALSE]]
     /\ timers' = c.timers
     /\ tts' = tt
     /\ EmitStatus("connecting")

\* the session effect's body when not enabled: the teardown once more (wsRef is
\* null by then), tts.reset(), setLatestResult(null), setWsStatus('disconnected')
StopSession(c, tt) ==
  /\ sess' = RefDisconnectSess(c.sess, c.hook.wsRef)
  /\ socks' = RefDisconnectSocks(c.sess, c.socks, c.hook.wsRef)
  /\ timers' = RefDisconnectTimers(c.timers, c.hook.wsRef)
  /\ hook' = [ClearInterval(c.hook) EXCEPT !.wsRef = 0, !.latestResult = 0]
  /\ tts' = TtsReset(tt)
  /\ EmitStatus("disconnected")
  /\ hist' = [hist EXCEPT !.tail = <<>>, !.started = <<>>, !.failed = FALSE, !.shotBy = 0]

\* one commit with the props (e, m, t): the cleanup of the session effect's previous
\* run (when there was one), the mode effect (when mode changed), the effect's body
Commit(e, m, t, rerun) ==
  LET c0 == Teardown(rerun)
      c  == [c0 EXCEPT !.hook = [@ EXCEPT !.phase = "mounted", !.enabled = e,
                                           !.mode = m, !.ttsEnabled = t]]
      tt0 == IF rerun THEN TtsStop(tts) ELSE tts
      tt  == IF ~rerun \/ m # hook.mode THEN TtsSetMode(tt0, m) ELSE tt0
  IN /\ IF e THEN StartSession(c, m, tt) ELSE StopSession(c, tt)
     /\ speech' = IF rerun \/ ~e THEN SpeechStop(speech) ELSE speech
     /\ UNCHANGED <<tasks, now, captures>>

\* first render of the component that uses the hook
Mount(e, m, t) ==
  /\ dispatching = NoSocket
  /\ hook.phase = "new"
  /\ Commit(e, m, t, FALSE)
  /\ UNCHANGED dispatching

\* a later render in which a dependency of the session effect has changed:
\* enabled, mode, or handleDetection (which changes with ttsEnabled and mode)
Rerender(e, m, t) ==
  /\ dispatching = NoSocket
  /\ hook.phase = "mounted"
  /\ <<e, m, t>> # <<hook.enabled, hook.mode, hook.ttsEnabled>>
  /\ Commit(e, m, t, TRUE)
  /\ UNCHANGED dispatching

\* the component unmounts: the effect's cleanup function runs a last time
Unmount ==
  /\ dispatching = NoSocket
  /\ hook.phase = "mounted"
  /\ LET c == Teardown(TRUE)
     IN /\ sess' = c.sess
        /\ socks' = c.socks
        /\ timers' = c.timers
        /\ hook' = [c.hook EXCEPT !.phase = "unmounted"]
  /\ tts' = TtsStop(tts)
  /\ speech' = SpeechStop(speech)
  /\ hist' = [hist EXCEPT !.tail = <<>>, !.shotBy = 0]
  /\ UNCHANGED <<wsStatus, dispatching, tasks, now, captures>>

\* how a takePictureAsync call settles: with a photo that has base64 data, with
\* none, or by throwing
CaptureOutcomes == {"photo", "empty", "throw"}

\* the interval callback's early return: if (isCapturing.current || !cameraRef.current) return
TickSkipsNoCamera(h, cam) == ~cam
TickSkips(h, cam) == h.isCapturing \/ ~cam

\* isCapturing.current = true
MarkCapturingNot(h) == h
MarkCapturing(h) == [h EXCEPT !.isCapturing = TRUE]

\* finally { isCapturing.current = false }
CaptureFinallyKeepsFlag(h) == h
CaptureFinally(h) == [h EXCEPT !.isCapturing = FALSE]

\* the interval fires, `cam` telling whether cameraRef.current is set: the callback
\* up to its await of takePictureAsync
Tick(cam) ==
  /\ dispatching = NoSocket
  /\ hook.intervals > 0
  /\ hist.shots < MaxShots
  /\ IF TickSkips(hook, cam)
     THEN UNCHANGED <<hook, captures, hist>>
     ELSE /\ hook' = MarkCapturing(hook)
          /\ captures' = captures + 1
          /\ hist' = [hist EXCEPT !.shots = @ + 1, !.shotBy = hook.wsRef]
  /\ UNCHANGED <<sess, socks, timers, wsStatus, dispatching, tts, speech, tasks, now>>

\* a takePictureAsync call settles: the rest of the interval callback, which sends
\* the photo on whatever wsRef.current is by then
CaptureDone(outcome) ==
  /\ dispatching = NoSocket
  /\ captures > 0
  /\ captures' = captures - 1
  /\ IF outcome = "photo" /\ hook.wsRef # 0
     THEN DoSendFrame(hook.wsRef, hist.nFrames + 1, [hist EXCEPT !.settled = outcome])
     ELSE /\ UNCHANGED <<sess, socks>>
          /\ hist' = [hist EXCEPT !.settled = outcome]
  /\ hook' = CaptureFinally(hook)
  /\ UNCHANGED <<timers, wsStatus, dispatching, tts, speech, tasks, now>>

\* the hook, mounted with some props and re-rendered with others, and the sockets
\* and timers of the sessions it creates
InitHook ==
  /\ sess = [k \in SessionIds |-> Unborn]
  /\ hist = NewHist
  /\ socks = [s \in SocketIds |-> FreeSlot]
  /\ timers = <<>>
  /\ wsStatus = "disconnected"
  /\ dispatching = NoSocket
  /\ hook = NewHook
  /\ tts = NewTts
  /\ speech = <<>>
  /\ tasks = <<>>
  /\ now = Epoch
  /\ captures = 0

NextHook ==
  \/ \E e \in BOOLEAN : \E m \in Modes : \E t \in BOOLEAN : Mount(e, m, t)
  \/ \E e \in BOOLEAN : \E m \in Modes : \E t \in BOOLEAN : Rerender(e, m, t)
  \/ Unmount
  \/ \E s \in SocketIds : SocketOpen(s)
  \/ \E s \in SocketIds : SocketError(s)
  \/ \E s \in SocketIds : SocketClose(s)
  \/ \E i \in 1..Len(timers) : TimerFire(i)

SpecHook == InitHook /\ [][NextHook]_vars

\* the hook with its capture interval, over connections that open, close and are
\* retried
NextCapture ==
  \/ \E e \in BOOLEAN : \E m \in Modes : \E t \in BOOLEAN : Mount(e, m, t)
  \/ \E e \in BOOLEAN : \E m \in Modes : \E t \in BOOLEAN : Rerender(e, m, t)
  \/ Unmount
  \/ \E s \in SocketIds : SocketOpen(s)
  \/ \E s \in SocketIds : SocketClose(s)
  \/ \E i \in 1..Len(timers) : TimerFire(i)
  \/ \E cam \in BOOLEAN : Tick(cam)
  \/ \E o \in CaptureOutcomes : CaptureDone(o)

SpecCapture == InitHook /\ [][NextCapture]_vars

\* the hook with the results its sessions deliver and the narration they cause, all
\* within one cooldown interval
NextSession ==
  \/ \E e \in BOOLEAN : \E m \in Modes : \E t \in BOOLEAN : Mount(e, m, t)
  \/ \E e \in BOOLEAN : \E m \in Modes : \E t \in BOOLEAN : Rerender(e, m, t)
  \/ Unmount
  \/ \E s \in SocketIds : SocketOpen(s)
  \/ \E s \in SocketIds : SocketClose(s)
  \/ \E s \in SocketIds : \E msg \in SessionResults : SocketMessage(s, msg)
  \/ \E i \in 1..Len(tasks) : StopResolved(i)
  \/ SpeechDone
  \/ SpeechError

SpecSession == InitHook /\ [][NextSession]_vars

\* ------------------------------------------- useRealtimeDetection (web client)
\* the targetFps prop
TargetFps == {1, 2}

\* stop() and reset() of the web client's RealtimeTtsManager:
\* speechSynthesis.cancel(), and lastSpeakTime = 0
WebTtsStop(tt) == tt
WebTtsReset(tt) == [WebTtsStop(tt) EXCEPT !.lastSpeakTime = 0]

\* the cleanup function of the web hook's effect, which exists when the previous
\* run of the effect was enabled: cancelAnimationFrame, disconnect(), wsRef = null
WebTeardown(run) ==
  IF run
  THEN [ sess   |-> RefDisconnectSess(sess, hook.wsRef),
         socks  |-> RefDisconnectSocks(sess, socks, hook.wsRef),
         timers |-> RefDisconnectTimers(timers, hook.wsRef),
         hook   |-> [hook EXCEPT !.animFrameRef = FALSE, !.wsRef = 0] ]
  ELSE [ sess |-> sess, socks |-> socks, timers |-> timers, hook |-> hook ]

\* the effect's body when enabled: new RealtimeWebSocket(handleDetection,
\* setWsStatus); connect(); intervalMs = 1000 / targetFps;
\* animFrameRef.current = requestAnimationFrame(captureLoop).
\* (No message is delivered in SpecLoop, so the handler is left as constructed.)
WebStartSession(c, fps) ==
  LET frees == FreeSessions \ {hook.wsRef}
      slots == {s \in SocketIds : c.socks[s].owner = 0}
  IN /\ frees # {}
     /\ slots # {}
     /\ LET k == CHOOSE j \in frees : \A i \in frees : j <= i
            s == CHOOSE u \in slots : \A v \in slots : u <= v
        IN /\ sess' = [c.sess EXCEPT ![k] = [NewSession("navegacion") EXCEPT !.ws = s]]
           /\ socks' = [c.socks EXCEPT ![s] = NewSocket(k)]
           /\ hook' = [c.hook EXCEPT !.wsRef = k, !.animFrameRef = TRUE,
                                     !.intervalMs = 1000 \div fps]
           /\ hist' = [hist EXCEPT !.tail = <<>>,
                                   !.fails[k] = 0,
                                   !.wire[k] = <<>>,
                                   !.requested[k] = [mode |-> "navegacion", offline |-> FALSE]]
     /\ timers' = c.timers
     /\ tts' = tts
     /\ EmitStatus("connecting")

\* the effect's body when not enabled: the same teardown, reset() of the narration,
\* setLatestResult(null), setWsStatus('disconnected')
WebStopSession(c) ==
  /\ sess' = RefDisconnectSess(c.sess, c.hook.wsRef)
  /\ socks' = RefDisconnectSocks(c.sess, c.socks, c.hook.wsRef)
  /\ timers' = RefDisconnectTimers(c.timers, c.hook.wsRef)
  /\ hook' = [c.hook EXCEPT !.animFrameRef = FALSE, !.wsRef = 0, !.latestResult = 0]
  /\ tts' = WebTtsReset(tts)
  /\ EmitStatus("disconnected")
  /\ hist' = [hist EXCEPT !.tail = <<>>]

\* one commit of the web hook with the props (e, t, fps)
WebCommit(e, t, fps, rerun) ==
  LET c0 == WebTeardown(rerun /\ hook.enabled)
      c  == [c0 EXCEPT !.hook = [@ EXCEPT !.phase = "mounted", !.enabled = e,
                                           !.ttsEnabled = t, !.targetFps = fps]]
  IN /\ IF e THEN WebStartSession(c, fps) ELSE WebStopSession(c)
     /\ speech' = SpeechStop(speech)
     /\ UNCHANGED <<tasks, now, captures, dispatching>>

WebMount(e, t, fps) ==
  /\ dispatching = NoSocket
  /\ hook.phase = "new"
  /\ WebCommit(e, t, fps, FALSE)

\* a later render in which enabled, targetFps or handleDetection (which changes
\* with ttsEnabled) has changed
WebRerender(e, t, fps) ==
  /\ dispatching = NoSocket
  /\ hook.phase = "mounted"
  /\ <<e, t, fps>> # <<hook.enabled, hook.ttsEnabled, hook.targetFps>>
  /\ WebCommit(e, t, fps, TRUE)

WebUnmount ==
  /\ dispatching = NoSocket
  /\ hook.phase = "mounted"
  /\ LET c == WebTeardown(hook.enabled)
     IN /\ sess' = c.sess
        /\ socks' = c.socks
        /\ timers' = c.timers
        /\ hook' = [c.hook EXCEPT !.phase = "unmounted"]
  /\ tts' = WebTtsStop(tts)
  /\ speech' = SpeechStop(speech)
  /\ hist' = [hist EXCEPT !.tail = <<>>]
  /\ UNCHANGED <<wsStatus, dispatching, tasks, now, captures>>

\* now - lastCaptureTime.current >= intervalMs
SlotDueAlways(h, t) == TRUE
SlotDue(h, t) == t - h.lastCaptureTime >= h.intervalMs

\* the animation frame callback captureLoop; `ready` tells whether the video, the
\* canvas and its 2d context are there and the video has data
CaptureLoop(ready) ==
  /\ dispatching = NoSocket
  /\ hook.animFrameRef
  /\ IF SlotDue(hook, now)
     THEN /\ hook' = [hook EXCEPT !.lastCaptureTime = now]
          /\ IF ready /\ hook.wsRef # 0
             THEN DoSendFrame(hook.wsRef, hist.nFrames + 1,
                              [hist EXCEPT !.slotAt = now, !.sentAt = now])
             ELSE /\ hist' = [hist EXCEPT !.slotAt = now]
                  /\ UNCHANGED <<sess, socks>>
     ELSE UNCHANGED <<hook, hist, sess, socks>>
  /\ UNCHANGED <<timers, wsStatus, dispatching, tts, speech, tasks, now, captures>>

\* the web hook with its render loop and narration on, over connections that open
\* and close, as time passes
NextLoop ==
  \/ \E e \in BOOLEAN : \E fps \in TargetFps : WebMount(e, TRUE, fps)
  \/ \E e \in BOOLEAN : \E fps \in TargetFps : WebRerender(e, TRUE, fps)
  \/ WebUnmount
  \/ \E s \in SocketIds : SocketOpen(s)
  \/ \E s \in SocketIds : SocketClose(s)
  \/ \E ready \in BOOLEAN : CaptureLoop(ready)
  \/ \E d \in ClockSteps : Advance(d)

SpecLoop == InitHook /\ [][NextLoop]_vars

\* ---------------------------------- RealtimeTtsManager.speakChanges (earlier policy)
\* the changes of a detection result: has_significant_change, the names that
\* appeared and disappeared, and the zone changes
ZoneChanges ==
  { <<>>,
    <<[name |-> "perro", to_zone |-> "muy_cerca"]>>,
    <<[name |-> "perro", to_zone |-> "cerca"]>>,
    <<[name |-> "perro", to_zone |-> "muy_cerca"], [name |-> "auto", to_zone |-> "muy_cerca"]>> }
ChangeInputs ==
  [ has_significant_change : BOOLEAN,
    appeared     : {<<>>, <<"silla">>, <<"silla", "mesa">>},
    disappeared  : {<<>>, <<"puerta">>},
    zone_changes : ZoneChanges ]

\* names.join(', ')
RECURSIVE Join(_)
Join(names) ==
  IF names = <<>> THEN ""
  ELSE IF Len(names) = 1 THEN names[1]
  ELSE names[1] \o ", " \o Join(Tail(names))

\* zone_changes.filter(zc => zc.to_zone === 'muy_cerca').map(z => z.name)
DangerNames(zcs) ==
  LET Near(zc) == zc.to_zone = "muy_cerca"
      near == SelectSeq(zcs, Near)
  IN [i \in 1..Len(near) |-> near[i].name]

\* the announcement speakChanges composes, '' when there is nothing to announce
AnnouncementText(c) ==
  IF DangerNames(c.zone_changes) # <<>>
  THEN "Precaución, " \o Join(DangerNames(c.zone_changes)) \o " muy cerca"
  ELSE IF Len(c.appeared) > 0 /\ Len(c.disappeared) = 0
  THEN (IF Len(c.appeared) = 1 THEN "Nuevo: " ELSE "Nuevos: ") \o Join(c.appeared)
  ELSE IF Len(c.disappeared) > 0 /\ Len(c.appeared) = 0
  THEN Join(c.disappeared) \o " ya no visible"
  ELSE IF Len(c.appeared) > 0 /\ Len(c.disappeared) > 0
  THEN "Ahora: " \o Join(c.appeared)
  ELSE ""

\* speakChanges' first guard
Significant(c) == c.has_significant_change

\* speakChanges(changes), up to its first await: the three early returns, the text,
\* and then the flag, the time stamp and `await Speech.stop()` as in doSpeak
SpeakChanges(c) ==
  /\ Len(tasks) < MaxTasks
  /\ IF /\ Significant(c)
        /\ CooldownOver(tts, now)
        /\ ~tts.isSpeaking
        /\ AnnouncementText(c) # ""
     THEN DoSpeak(tts, tasks, AnnouncementText(c), FALSE, hist)
     ELSE UNCHANGED <<tts, speech, tasks, hist>>
  /\ UNCHANGED <<sess, socks, timers, wsStatus, dispatching, hook, now, captures>>

\* the earlier arbiter, fed with arbitrary changes at arbitrary times
NextChanges ==
  \/ \E c \in ChangeInputs : SpeakChanges(c)
  \/ \E i \in 1..Len(tasks) : StopResolved(i)
  \/ SpeechDone
  \/ SpeechError
  \/ ManagerStop
  \/ ManagerReset
  \/ \E d \in ClockSteps : Advance(d)

SpecChanges == Init /\ [][NextChanges]_vars

\* ===================================================================== claims
Owner(s) == socks[s].owner
Connected(k) == IsOpen(socks, sess[k].ws)
Used(ss) == {s \in SocketIds : ss[s].owner # 0}

\* a socket that is still connecting has sent nothing, and every non-empty log
\* starts with a config message
C1_FirstMessage ==
  \A s \in Used(socks) :
    /\ socks[s].readyState = "CONNECTING" => socks[s].sent = <<>>
    /\ socks[s].sent # <<>> => socks[s].sent[1].type = "config"

\* the open event of the session's socket leaves exactly the config message with
\* the session's mode of that moment on it
C1_OpenStep ==
  \A s \in SocketIds :
    SocketOpen(s) =>
      socks'[s].sent = IF sess[Owner(s)].ws = s THEN <<ConfigMsg(sess[Owner(s)].mode)>> ELSE <<>>

\* C1: on every connection that opens, the first outbound message is the config
\* message carrying the session's mode at that moment, and no frame precedes it.
C1_ConfigBeforeFrames == []C1_FirstMessage /\ [][C1_OpenStep]_vars

\* C1 witness: after an automatic reconnect, the new connection carries the config
\* message followed by a frame.
C1_Witness ==
  \E s \in Used(socks) :
    /\ hist.tail = <<"disconnected", "connecting", "connected">>
    /\ sess[Owner(s)].ws = s
    /\ Len(socks[s].sent) = 2
    /\ socks[s].sent[1].type = "config"
    /\ socks[s].sent[2].type = "frame"

\* setMode on a session that is not connected leaves the sockets alone; the open
\* event sends the mode last asked for
C2_Step ==
  /\ \A k \in SessionIds : \A m \in Modes :
       (SetMode(k, m) /\ ~Connected(k)) => socks' = socks
  /\ \A s \in SocketIds :
       (SocketOpen(s) /\ sess[Owner(s)].ws = s) =>
          socks'[s].sent = <<ConfigMsg(hist.requested[Owner(s)].mode)>>

\* C2: a setMode call made while the session is not connected sends nothing, and
\* the config message sent when the session's socket opens carries the mode of the
\* most recent setMode call (the constructor's mode if there was none).
C2_LastModeAtOpen == [][C2_Step]_vars

\* C2 witness: the session's socket has just opened after a setMode call that found
\* the session not connected, and carries that mode.
C2_Witness ==
  \E s \in Used(socks) :
    /\ sess[Owner(s)].ws = s
    /\ hist.requested[Owner(s)].offline
    /\ socks[s].readyState = "OPEN"
    /\ socks[s].sent = <<ConfigMsg(hist.requested[Owner(s)].mode)>>

\* what a setMode step on a connected session changes
C3_Step ==
  \A k \in SessionIds : \A m \in Modes :
    (SetMode(k, m) /\ Connected(k)) =>
      LET s == sess[k].ws IN
      /\ socks'[s].sent = Append(socks[s].sent, ConfigMsg(m))
      /\ socks'[s].readyState = "OPEN"
      /\ \A u \in SocketIds \ {s} : socks'[u] = socks[u]
      /\ sess'[k].ws = s
      /\ sess'[k].reconnectAttempts = sess[k].reconnectAttempts
      /\ sess'[k].frameId = sess[k].frameId
      /\ sess'[k].mode = m
      /\ timers' = timers
      /\ wsStatus' = wsStatus

\* C3: setMode on a connected session appends exactly one config message with the
\* new mode to the open socket; the socket stays open, no socket is created or
\* closed, and reconnect counter, frame identifier, timers and status do not change.
C3_SetModeConnected == [][C3_Step]_vars

\* C3 witness: an open socket whose log ends with a config message sent by setMode
\* after the one sent at open.
C3_Witness ==
  \E s \in Used(socks) :
    /\ socks[s].readyState = "OPEN"
    /\ Len(socks[s].sent) >= 2
    /\ socks[s].sent[Len(socks[s].sent)].type = "config"

\* no payload of a dropped frame is on any socket
C5_NeverSent ==
  \A s \in Used(socks) : \A i \in 1..Len(socks[s].sent) :
    socks[s].sent[i].type = "frame" => socks[s].sent[i].data \notin hist.dropped

\* sendFrame on a session that is not connected changes neither sockets nor session
C5_Step ==
  \A k \in SessionIds :
    (SendFrame(k) /\ ~Connected(k)) => (socks' = socks /\ sess' = sess)

\* C5: sendFrame on a session that is not connected sends nothing and leaves the
\* frame identifier unchanged, and the payload of a dropped frame never appears on
\* any socket afterwards.
C5_DropWhenNotConnected == []C5_NeverSent /\ [][C5_Step]_vars

\* C5 witness: a frame was dropped and the session is connected afterwards, with
\* only the config message on its socket.
C5_Witness ==
  \E k \in SessionIds :
    /\ hist.dropped # {}
    /\ Connected(k)
    /\ sess[k].frameId = 0
    /\ Len(socks[sess[k].ws].sent) = 1

\* the step schedules one more reconnect timer for session k, with this delay
Schedules(k, delay) ==
  /\ Len(timers') = Len(timers) + 1
  /\ timers'[Len(timers')].owner = k
  /\ timers'[Len(timers')].delay = delay
  /\ \A i \in 1..Len(timers) : timers'[i].delay = timers[i].delay /\ timers'[i].owner = timers[i].owner

\* the N-th consecutive close event schedules a timer of 2000 * N while N <= 5
C6_Step ==
  \A s \in SocketIds :
    (SocketClose(s) /\ sess[Owner(s)].maxReconnectAttempts = DefaultMaxReconnectAttempts) =>
      LET k == Owner(s)
          N == hist.fails[k] + 1
      IN IF N <= 5 THEN Schedules(k, 2000 * N) ELSE timers' = timers

\* C6: on a session on which disconnect() was never called, the N-th consecutive
\* close event since the last open (N = 1..5) schedules a reconnect with delay
\* 2000 * N ms, and a sixth consecutive close schedules nothing.
C6_Backoff == [][C6_Step]_vars

\* C6 witness: six consecutive closes have happened: five attempts were scheduled
\* and fired, and the sixth close scheduled nothing.
C6_Witness ==
  /\ hist.fails[1] = 6
  /\ sess[1].maxReconnectAttempts = DefaultMaxReconnectAttempts
  /\ sess[1].reconnectAttempts = 5
  /\ timers = <<>>

\* a socket created for a session on which disconnect() was called is created by
\* a connect() call of the controller
C7_Step ==
  \A k \in SessionIds :
    (/\ sess[k].exists
     /\ sess[k].maxReconnectAttempts = 0
     /\ \E s \in SocketIds : socks[s].owner = 0 /\ socks'[s].owner = k)
    => Connect(k)

\* C7: after disconnect() the session never initiates a connection attempt by
\* itself: every socket created for a session on which disconnect() was called
\* is created by an explicit connect() call.
C7_NoReconnectAfterDisconnect == [][C7_Step]_vars

\* C8: after an open socket closes unexpectedly (no disconnect() on the session,
\* and no connect()/disconnect() call since), the statuses delivered from that
\* close on are 'disconnected', then 'connecting', then the outcome of the new
\* socket ('connected' when it opens), with no other status in between.
C8_StatusOrder ==
  /\ Len(hist.tail) >= 1 => hist.tail[1] = "disconnected"
  /\ Len(hist.tail) >= 2 => hist.tail[2] = "connecting"
  /\ Len(hist.tail) >= 3 => hist.tail[3] \in {"connected", "error"}

\* a close event that finds the attempts exhausted
C9_Step ==
  \A s \in SocketIds :
    (/\ SocketClose(s)
     /\ sess[Owner(s)].maxReconnectAttempts = DefaultMaxReconnectAttempts
     /\ sess[Owner(s)].reconnectAttempts >= DefaultMaxReconnectAttempts)
    => /\ wsStatus' = "disconnected"
       /\ PendingTimers(timers', Owner(s)) = {}
       /\ LiveSockets(socks', Owner(s)) = {}

\* C9: when a close event finds the reconnect attempts exhausted, 'disconnected'
\* is the status delivered and the session is left with no socket connecting or
\* open and no timer pending, so that only an explicit connect() starts a new
\* attempt.
C9_TerminalDisconnected == [][C9_Step]_vars

\* an error event reports 'disconnected' and schedules a reconnect while the
\* attempts are below the cap
C10_ErrorStepAsStated ==
  \A s \in SocketIds :
    SocketError(s) =>
      /\ wsStatus' = "disconnected"
      /\ MayReconnect(sess[Owner(s)].reconnectAttempts, sess[Owner(s)].maxReconnectAttempts)
           => Len(timers') = Len(timers) + 1

\* C10 as stated: every socket error event moves the session to Disconnected, reports
\* it and schedules a reconnect while the attempts are below the cap: the error
\* event alone suffices.
C10_ErrorAloneReconnects == [][C10_ErrorStepAsStated]_vars

\* what an error event and a close event change
C10_Step ==
  \A s \in SocketIds :
    /\ SocketError(s) =>
         /\ wsStatus' = "error"
         /\ sess' = sess
         /\ timers' = timers
         /\ dispatching' = s
    /\ SocketClose(s) =>
         LET k == Owner(s) IN
         /\ wsStatus' = "disconnected"
         /\ s \notin LiveSockets(socks', k)
         /\ ~IsOpen(socks', sess'[k].ws) \/ sess'[k].ws # s
         /\ IF sess[k].reconnectAttempts < sess[k].maxReconnectAttempts
            THEN /\ Schedules(k, BaseDelay * (sess[k].reconnectAttempts + 1))
                 /\ sess'[k].reconnectAttempts = sess[k].reconnectAttempts + 1
            ELSE timers' = timers /\ sess'[k].reconnectAttempts = sess[k].reconnectAttempts

\* while an error event's close event is due, nothing else runs
C10_CloseFollows ==
  dispatching # NoSocket =>
    /\ socks[dispatching].readyState = "CLOSED"
    /\ socks[dispatching].owner # 0

\* C10 amended: a socket error event reports 'error' and changes nothing else of
\* the session (no reconnect is scheduled); the close event of the same socket is
\* dispatched next, and every close event reports 'disconnected', leaves the socket
\* closed, and schedules a reconnect with delay BaseDelay * (attempts + 1) exactly
\* when the attempts are below the cap (5, or 0 after disconnect()).
C10_CloseReconnects == []C10_CloseFollows /\ [][C10_Step]_vars

\* C10 witness: an error event has been delivered on a socket of a session whose
\* attempts are below the cap: the status is 'error' and no timer is pending.
C10_Witness ==
  /\ dispatching # NoSocket
  /\ wsStatus = "error"
  /\ timers = <<>>
  /\ sess[Owner(dispatching)].reconnectAttempts < sess[Owner(dispatching)].maxReconnectAttempts

\* the commit changes the mode prop while enabled was and stays true and the
\* session is connected
ModeChangeWhileEnabled ==
  /\ hook.phase = "mounted" /\ hook'.phase = "mounted"
  /\ hook.enabled /\ hook'.enabled
  /\ hook'.mode # hook.mode
  /\ hook.wsRef # 0
  /\ IsOpen(socks, sess[hook.wsRef].ws)

\* a mode change on a connected session keeps session and sockets and sends the mode
C4_Step ==
  ModeChangeWhileEnabled =>
    LET k == hook.wsRef
        s == sess[k].ws
    IN /\ hook'.wsRef = k
       /\ sess'[k].ws = s
       /\ Used(socks') = Used(socks)
       /\ \A u \in Used(socks) : socks'[u].readyState = socks[u].readyState
       /\ socks'[s].sent = Append(socks[s].sent, ConfigMsg(hook'.mode))

\* C4: changing the mode while the real-time session is active and connected does
\* not reconnect: the hook keeps its RealtimeWebSocket, the session keeps its socket,
\* which stays open, no socket is created, and the new mode goes out on it as a
\* config message.
C4_ModeChangeKeepsSocket == [][C4_Step]_vars

\* ------------------------------------------------------- arbiter claims
\* the step is a speakResult call with these arguments
Result(s, g, r) == SpeakResult(s, g, r)

\* the results with a hazard present, a non-empty alert text and priority critical
CriticalAlerts ==
  {r \in RiskInputs : r.given /\ r.has_danger /\ r.alert_text # "" /\ r.priority = "critical"}

\* a critical alert in hazard mode is accepted whatever the flag and the stamp: the
\* device is stopped and an invocation for the alert text is under way (in hazard
\* mode the summary and the change flag of the result play no part)
C11_Accepted ==
  \A r \in CriticalAlerts :
    (tts.mode = "riesgo" /\ Result("", FALSE, r))
    => /\ speech' = <<>>
       /\ tasks' = Append(tasks, Task("interrupt", r.alert_text, TRUE))

\* an invocation under way is never given up: when its first stop has finished it
\* stops the device again inside doSpeak, and when that stop has finished it hands
\* its text to the device; nothing else removes or alters an invocation (a new
\* result only adds one)
C11_CarriedThrough ==
  /\ \A i \in 1..Len(tasks) :
       StopResolved(i) =>
         IF tasks[i].pc = "interrupt"
         THEN /\ tasks' = Append(Without(tasks, i), Task("doSpeak", tasks[i].text, TRUE))
              /\ speech' = <<>>
         ELSE /\ tasks' = Without(tasks, i)
              /\ speech' = Append(speech, tasks[i].text)
  /\ tasks' # tasks =>
       \/ \E i \in 1..Len(tasks) : StopResolved(i)
       \/ Len(tasks') = Len(tasks) + 1 /\ SubSeq(tasks', 1, Len(tasks)) = tasks

\* what holds of a critical alert: it is accepted whatever the time since the last
\* utterance start and whether or not an utterance is in progress, the utterance in
\* progress is stopped at once, and the alert is handed to the speech device as soon
\* as the stops have finished, with no cooldown and no in-progress check on the way
C11_CriticalHandedOver == [][C11_Accepted /\ C11_CarriedThrough]_vars

\* when a critical alert is handed to the device nothing else is outstanding on it,
\* so that the device speaks the alert at once
C11_SpokenAtOnce ==
  \A i \in 1..Len(tasks) :
    (StopResolved(i) /\ tasks[i].pc = "doSpeak" /\ tasks[i].critical)
    => speech' = <<tasks[i].text>>

\* C11: in hazard mode every result with a hazard, a non-empty alert text and priority
\* critical starts an utterance of the alert text immediately, whatever the time
\* since the last utterance start and whether or not an utterance is in progress; an
\* utterance in progress is stopped first.
C11_CriticalNeverBlocked == [][C11_Accepted /\ C11_CarriedThrough /\ C11_SpokenAtOnce]_vars

\* the step is a speakResult call that enters doSpeak at once: one more invocation
\* is suspended, inside doSpeak (a critical alert suspends before doSpeak)
StartsNow ==
  /\ Len(tasks') = Len(tasks) + 1
  /\ tasks'[Len(tasks')].pc = "doSpeak"

\* the step is a speakResult call handled in a navigation-like mode that starts an
\* utterance
NavStart == StartsNow /\ tts.mode # "riesgo"

\* C12: a result handled in navigation mode starts no utterance less than 3000 ms
\* after the start of the latest utterance (an utterance starts when doSpeak is
\* entered), whichever mode that utterance was started in, a critical alert before a
\* mode switch included; reset() clears the cooldown.
C12_NavigationCooldown ==
  [][(NavStart /\ hist.started # <<>>) => now - hist.started[1].at >= 3000]_vars

\* C12 witness: an utterance has just been started in navigation mode, 3000 ms or
\* more after the start of the one before.
C12_Witness ==
  /\ tts.mode = "navegacion"
  /\ hist.started # <<>>
  /\ hist.started[1].prev > 0
  /\ hist.started[1].at = now
  /\ hist.started[1].at - hist.started[1].prev >= 3000
  /\ tasks = <<Task("doSpeak", hist.started[1].text, FALSE)>>

\* 3000 ms or more have passed since the last utterance start (none since reset()
\* counts as passed)
Elapsed == hist.started = <<>> \/ now - hist.started[1].at >= 3000

\* conditions (a), (b) and (c) for a result with summary s and change flag g
C13_Conditions(s, g) ==
  /\ s # tts.lastSummary \/ g
  /\ Elapsed
  /\ ~tts.isSpeaking

\* the step starts an utterance of s and remembers s as the last spoken summary
C13_Speaks(s) ==
  /\ StartsNow
  /\ tasks'[Len(tasks')].text = s
  /\ tts'.lastSummary = s

C15_OneUtterance == Len(speech) <= 1

\* an invocation is under way that has stopped the device and will set or clear the
\* flag when its stop has finished
Pending == tasks # <<>>

\* C16 as stated: in every reachable state the Speaking flag is true only while an
\* utterance started by the arbiter is in flight on the speech device.
C16_SpeakingMeansInFlight == tts.isSpeaking => speech # <<>>

\* C16 amended: the Speaking flag is true only while an utterance started by the
\* arbiter is on the speech device or an invocation of the arbiter waits for a
\* Speech.stop() to finish before it speaks.
C16_SpeakingOrPending == tts.isSpeaking => (speech # <<>> \/ Pending)

\* C16 witness: a critical alert has interrupted, its utterance is on the device,
\* nothing else is under way and the flag is true.
C16_Witness ==
  /\ tts.isSpeaking
  /\ tasks = <<>>
  /\ hist.started # <<>>
  /\ hist.started[1].critical
  /\ speech = <<hist.started[1].text>>

\* an eligible result: a summary that may be spoken in a navigation-like mode, or an
\* alert that is not critical in hazard mode, once the cooldown has elapsed
C17_StartsEligible ==
  /\ \A s \in Texts \ {""} :
       (tts.mode # "riesgo" /\ CooldownOver(tts, now))
         => ENABLED (Result(s, TRUE, NoRiskData) /\ C13_Speaks(s))
  /\ \A r \in RiskInputs :
       (tts.mode = "riesgo" /\ HasAlert(r) /\ ~IsCritical(r) /\ CooldownOver(tts, now))
         => ENABLED (Result("", FALSE, r) /\ StartsNow)

\* C17: once the speech device has reported an error for an utterance, the Speaking
\* flag is false (nothing is raised: the arbiter goes on as after a completion)
\* and, until the next utterance is started, every eligible result arriving with the
\* cooldown elapsed starts an utterance.
C17_ErrorDoesNotBlock ==
  (hist.failed /\ Len(tasks) < MaxTasks) => (~tts.isSpeaking /\ C17_StartsEligible)

\* C17 witness: the device failed on an utterance, the cooldown has elapsed since,
\* and the arbiter is idle with the flag cleared.
C17_Witness ==
  /\ hist.failed
  /\ hist.started # <<>>
  /\ now - hist.started[1].at >= TtsMinInterval
  /\ CooldownOver(tts, now)
  /\ speech = <<>>
  /\ tasks = <<>>
  /\ ~tts.isSpeaking

\* C18: every reset() leaves Speaking = false, the last spoken text empty and the
\* last utterance start time 0 with the mode unchanged, and a second reset() right
\* after it would change nothing: neither the arbiter's fields nor the speech device.
C18_ResetIdempotent ==
  [][ManagerReset =>
       /\ tts' = [mode |-> tts.mode, lastSpeakTime |-> 0, isSpeaking |-> FALSE,
                  lastSummary |-> ""]
       /\ TtsReset(tts') = tts'
       /\ SpeechStop(speech') = speech'
       /\ tasks' = tasks]_vars

\* C18 witness: reset() was called in a mode other than the default while an
\* invocation was inside doSpeak: the cooldown and the flag are cleared, the mode is
\* kept.
C18_Witness ==
  /\ tasks # <<>>
  /\ tasks[1].pc = "doSpeak"
  /\ tts = [mode |-> "riesgo", lastSpeakTime |-> 0, isSpeaking |-> FALSE, lastSummary |-> ""]
  /\ speech = <<>>
  /\ hist.started = <<>>

\* C19: at most one takePictureAsync call is unsettled at any time, whatever the
\* ticks, the ways the captures settle, and the stops and restarts of the session.
C19_OneCapture == captures <= 1

\* C19 witness: the session was restarted while a capture of the previous session
\* was pending, and that capture is still the only one.
C19_Witness ==
  /\ captures = 1
  /\ hook.isCapturing
  /\ hook.intervalRef
  /\ hook.wsRef # 0
  /\ hook.wsRef # hist.shotBy

\* C20: while a capture is pending a tick of the interval changes nothing (it starts
\* no capture and sends no frame), and sendFrame has been called at most once per
\* capture started.
C20_TickDropped ==
  /\ captures > 0 => ~ENABLED <<\E cam \in BOOLEAN : Tick(cam)>>_vars
  /\ hist.nFrames <= hist.shots

\* C20 witness: a second capture is pending after the photo of the first went out
\* as a frame, and the interval is live.
C20_Witness ==
  /\ captures = 1
  /\ hook.intervalRef
  /\ hist.shots = 2
  /\ hist.nFrames = 1
  /\ hist.dropped = {}

\* the step is a capture that fails: takePictureAsync throws
CaptureFails == CaptureDone("throw")

\* a tick that finds the camera starts a capture
TickStartsCapture == ENABLED (Tick(TRUE) /\ captures' = captures + 1)

\* once the last capture to settle has failed and none is pending, the in-flight
\* flag is false and, while the interval is live, a tick starts a capture
C21_AfterFailure ==
  (hist.settled = "throw" /\ captures = 0) =>
    /\ ~hook.isCapturing
    /\ (hook.intervalRef /\ hist.shots < MaxShots /\ dispatching = NoSocket) => TickStartsCapture

\* a failing capture sends nothing: no sendFrame call, no message on any socket, no
\* frame identifier used
C21_FailureStep ==
  CaptureFails => (socks' = socks /\ sess' = sess /\ hist'.nFrames = hist.nFrames)

\* C21: a capture that fails sends no frame and clears the in-flight flag (nothing
\* is raised: the callback ends as after a capture that succeeds), so that the next
\* tick of the interval starts a new capture.
C21_FailureDoesNotBlock == []C21_AfterFailure /\ [][C21_FailureStep]_vars

\* C21 witness: the first capture failed and a tick after it has started the second.
C21_Witness ==
  /\ hist.settled = "throw"
  /\ hist.shots = 2
  /\ captures = 1
  /\ hist.nFrames = 0

\* the real-time session is running: the hook is mounted with enabled = true
Running == hook.phase = "mounted" /\ hook.enabled

\* the step stops the scheduler: a commit with enabled = false, or the unmount
StopStep == Unmount \/ \E m \in Modes : \E t \in BOOLEAN : Rerender(FALSE, m, t)

\* the step starts the scheduler again after a stop
RestartStep == ~hook.enabled /\ \E m \in Modes : \E t \in BOOLEAN : Rerender(TRUE, m, t)

\* while the session is not running no interval is left and no tick starts a capture;
\* while it runs, a tick starts a capture as soon as none is in flight
C22_NoCaptureWhileStopped ==
  /\ ~Running => (hook.intervals = 0 /\ ~hook.intervalRef /\ ~TickStartsCapture)
  /\ (Running /\ ~hook.isCapturing /\ hist.shots < MaxShots /\ dispatching = NoSocket)
       => (hook.intervals = 1 /\ TickStartsCapture)

\* a stop of a scheduler that is already stopped changes nothing but the props the
\* hook remembers (and the arbiter's mode, which follows the mode prop)
C22_StopTwice ==
  (StopStep /\ ~hook.enabled) =>
    /\ hook' = [hook EXCEPT !.phase = hook'.phase, !.mode = hook'.mode,
                            !.ttsEnabled = hook'.ttsEnabled]
    /\ tts' = [tts EXCEPT !.mode = tts'.mode]
    /\ UNCHANGED <<sess, socks, timers, wsStatus, speech, tasks, captures, hist>>

\* C22: a stop cancels the interval, so that no capture starts between a stop and the
\* next start; a second stop changes nothing; a later start sets the interval again
\* and captures resume.
C22_StopCancelsTimer ==
  /\ []C22_NoCaptureWhileStopped
  /\ [][C22_StopTwice]_vars
  /\ [][RestartStep => (hook'.intervalRef /\ hook'.intervals = 1)]_vars

\* C22 witness: the scheduler was stopped after a capture, started again, and a
\* capture of the new run is pending.
C22_Witness ==
  /\ Running
  /\ hist.shots = 2
  /\ hist.settled # "none"
  /\ captures = 1
  /\ hist.shotBy = hook.wsRef
  /\ \E k \in SessionIds : k # hook.wsRef /\ sess[k].exists /\ sess[k].maxReconnectAttempts = 0

\* C23: right after every stop of the scheduler, a stop made while a capture is
\* pending included, the in-flight flag isCapturing is false.
C23_StopClearsFlag == [][StopStep => ~hook'.isCapturing]_vars

\* the step tears the real-time session down: a commit that re-runs the session
\* effect (enabled, mode or handleDetection changed), or the unmount
TeardownStep ==
  \/ Unmount
  \/ \E e \in BOOLEAN : \E m \in Modes : \E t \in BOOLEAN : Rerender(e, m, t)

\* the session that was current before the step has its reconnection disabled, no
\* reconnect timer of it is armed and no socket of it is connecting or open
SessionClosed(k) ==
  k # 0 =>
    /\ sess'[k].maxReconnectAttempts = 0
    /\ ~sess'[k].reconnectTimer
    /\ \A i \in 1..Len(timers') : timers'[i].owner = k => ~timers'[i].held
    /\ LiveSockets(socks', k) = {}

\* the speech is stopped and the arbiter's state is cleared
ArbiterCleared ==
  /\ speech' = <<>>
  /\ ~tts'.isSpeaking
  /\ tts'.lastSpeakTime = 0
  /\ tts'.lastSummary = ""

\* C24: every teardown of the real-time session (the handler makes the calls in the
\* order timer, socket, arbiter) ends with all of it done: the interval of the old
\* run cancelled, the old session's reconnection disabled and its socket closed,
\* the speech stopped and the arbiter's state cleared.
C24_TeardownComplete ==
  [][TeardownStep =>
       /\ hook'.intervals = (IF hook'.intervalRef THEN 1 ELSE 0)
       /\ hook'.wsRef # hook.wsRef \/ hook.wsRef = 0
       /\ SessionClosed(hook.wsRef)
       /\ ArbiterCleared]_vars

\* the step starts a new session after an earlier one was torn down
StartsAgain ==
  /\ \E k \in SessionIds : sess[k].exists
  /\ \E e \in BOOLEAN : \E m \in Modes : \E t \in BOOLEAN : Rerender(e, m, t)
  /\ hook'.wsRef # 0

\* C25: whenever a new session is started after an earlier one was torn down, the
\* arbiter starts it with its last spoken text empty and its cooldown cleared.
C25_FreshArbiter ==
  [][StartsAgain => (tts'.lastSummary = "" /\ tts'.lastSpeakTime = 0)]_vars

\* the frames in the log of socket s
FramesOn(s) == LET IsFrame(m) == m.type = "frame" IN SelectSeq(socks[s].sent, IsFrame)

\* C26: the frames a session has put on the wire carry the identifiers 1, 2, 3, ...
\* in this order, whatever frames were dropped in between, and the session's
\* counter is the number of frames it has sent.
C26_FrameIdsConsecutive ==
  \A k \in SessionIds :
    sess[k].exists =>
      /\ hist.wire[k] = [i \in 1..Len(hist.wire[k]) |-> i]
      /\ sess[k].frameId = Len(hist.wire[k])

\* C26 witness: the first photo was dropped because the session was not connected,
\* and the second went out as frame 1.
C26_Witness ==
  /\ hook.wsRef # 0
  /\ hist.nFrames = 2
  /\ hist.dropped = {1}
  /\ hist.wire[hook.wsRef] = <<1>>

\* C27: on a connection that is not the first of its session to carry frames (a
\* connection established by a reconnect), the first frame carries the initial
\* frame identifier 1.
C27_ReconnectResetsFrameId ==
  \A s \in Used(socks) :
    (FramesOn(s) # <<>> /\ Len(hist.wire[Owner(s)]) > Len(FramesOn(s)))
      => FramesOn(s)[1].frame_id = 1

\* the step delivers an inbound message
Delivered == hist'.inbound # hist.inbound

\* the messages handed to the detection handler so far are distinct delivered ones,
\* in the order of their delivery
C28_InOrder ==
  /\ \A i \in 1..Len(hist.handled) : hist.handled[i] \in 1..hist.inbound
  /\ \A i \in 1..Len(hist.handled) : \A j \in 1..Len(hist.handled) :
        i < j => hist.handled[i] < hist.handled[j]

\* the delivery of a detection message calls the handler once, with that message;
\* the delivery of any other message does not call it; no other step calls it
C28_Step ==
  /\ Delivered =>
       \A s \in SocketIds : \A msg \in InboundMsgs :
         SocketMessage(s, msg) =>
           hist'.handled = IF msg.kind = "detection"
                           THEN Append(hist.handled, hist'.inbound)
                           ELSE hist.handled
  /\ hist'.handled # hist.handled => Delivered

\* C28: every inbound detection message is passed to the detection handler exactly
\* once, in the order the socket delivered them, and the handler is called for no
\* other message.
C28_DetectionsForwardedInOrder == []C28_InOrder /\ [][C28_Step]_vars

\* C28 witness: two detection messages were delivered and handled, in that order.
C28_Witness == hist.inbound = 2 /\ hist.handled = <<1, 2>>

\* an open socket of a session passes a detection message to the handler
ForwardsDetections(s) ==
  \A msg \in SessionResults :
    ENABLED (SocketMessage(s, msg) /\ hist'.handled = Append(hist.handled, hist'.inbound))

\* once a message that is no detection has been delivered, detection messages are
\* still forwarded on every open socket
C29_StillForwards ==
  (hist.inbound > Len(hist.handled) /\ hist.inbound < MaxMsgs /\ dispatching = NoSocket) =>
    \A s \in Used(socks) : IsOpen(socks, s) => ForwardsDetections(s)

\* the delivery of a malformed message or of a message of another kind changes
\* nothing: the sockets, the session's fields (reconnect counter, frame identifier),
\* the timers and the reported status stay, and no handler is called
C29_Step ==
  Delivered =>
    \A s \in SocketIds : \A msg \in NonDetections :
      SocketMessage(s, msg) =>
        /\ hist'.handled = hist.handled
        /\ UNCHANGED <<sess, socks, timers, wsStatus, dispatching, hook, tts, speech, tasks>>

\* C29: a malformed inbound message, or one of a kind other than detection, leaves
\* the session as it was (socket open, no status reported, handler not called,
\* reconnect counter and frame identifier unchanged), and later detection
\* messages are still forwarded.
C29_NonDetectionsIgnored == []C29_StillForwards /\ [][C29_Step]_vars

\* C29 witness: a message that is no detection was delivered and dropped, and the
\* detection message after it was handled.
C29_Witness == hist.inbound = 2 /\ hist.handled = <<2>>

\* C30: whatever the sequence of connect(), disconnect(), socket open, error and
\* close events and timer firings, a session never has more than one socket that
\* is connecting or open.
C30_OneLiveSocket ==
  \A k \in SessionIds : Cardinality(LiveSockets(socks, k)) <= 1

\* the last spoken text and the last start time are written (other than cleared by
\* reset()) only by a step that starts an utterance
C31_RecordsOnlyOnStart ==
  (\/ tts'.lastSummary # tts.lastSummary /\ tts'.lastSummary # ""
   \/ tts'.lastSpeakTime # tts.lastSpeakTime /\ tts'.lastSpeakTime # 0)
  => StartsNow

\* a navigation result that starts no utterance changes neither the arbiter's
\* fields nor the speech device
C31_RejectedChangesNothing ==
  \A s \in Texts : \A g \in BOOLEAN :
    (tts.mode # "riesgo" /\ Len(tasks) < MaxTasks) =>
      ~ENABLED (/\ NavResult(s, g)
                /\ ~StartsNow
                /\ <<tts, speech, tasks>>' # <<tts, speech, tasks>>)

\* the result the cooldown rejected arrives again with the cooldown over
Resubmitted ==
  /\ hist.suppressed # <<>>
  /\ tts.mode # "riesgo"
  /\ Len(tasks) < MaxTasks
  /\ now - tts.lastSpeakTime >= TtsMinInterval

\* it starts an utterance of its summary
SpokenNow ==
  ENABLED (/\ NavResult(hist.suppressed[1].summary, hist.suppressed[1].significant)
           /\ C13_Speaks(hist.suppressed[1].summary))

\* C31 as stated: the arbiter records the last spoken text and the start time only
\* when it starts an utterance; a navigation result rejected by the change test, the
\* cooldown or the in-progress guard leaves last spoken text, last start time and
\* Speaking unchanged, so a summary suppressed by the cooldown is spoken when it
\* arrives again after the cooldown.
C31_SuppressedSpokenLater ==
  /\ [](C31_RejectedChangesNothing /\ (Resubmitted => SpokenNow))
  /\ [][C31_RecordsOnlyOnStart]_vars

\* C31 amended: the same, but a summary suppressed by the cooldown is spoken when
\* it arrives again after the cooldown while no utterance is in progress (the
\* Speaking flag is false); while the flag is still true it is rejected again.
C31_SuppressedSpokenWhenIdle ==
  /\ [](/\ C31_RejectedChangesNothing
        /\ Resubmitted => (SpokenNow <=> ~tts.isSpeaking))
  /\ [][C31_RecordsOnlyOnStart]_vars

\* C31 witness: 'turn left' was started, 'obstacle ahead' arrived 500 ms later and
\* was rejected by the cooldown leaving the fields as they were, and the cooldown is
\* now over with the arbiter idle.
C31_Witness ==
  /\ hist.suppressed = <<[summary |-> "obstacle ahead", significant |-> FALSE]>>
  /\ hist.started # <<>>
  /\ tts = [mode |-> "navegacion", lastSpeakTime |-> hist.started[1].at,
            isSpeaking |-> FALSE, lastSummary |-> "turn left"]
  /\ hist.started[1].text = "turn left"
  /\ now - tts.lastSpeakTime >= TtsMinInterval

\* setMode changes the mode and nothing else: the flag, the last spoken text, the
\* last start time, the speech device and the invocations under way stay
C32_SetModeStep ==
  \A m \in Modes :
    ManagerSetMode(m) =>
      /\ tts' = [mode |-> m, isSpeaking |-> tts.isSpeaking,
                 lastSummary |-> tts.lastSummary, lastSpeakTime |-> tts.lastSpeakTime]
      /\ speech' = speech
      /\ tasks' = tasks

\* a result is judged by the mode set last: in hazard mode nothing but its alert
\* text can be started, in the other modes nothing but its summary, and only a
\* critical alert in hazard mode interrupts
C32_JudgedByCurrentMode ==
  \A s \in Texts : \A g \in BOOLEAN : \A r \in RiskInputs :
    Len(tasks) < MaxTasks =>
      ~ENABLED (/\ Result(s, g, r)
                /\ tasks' # tasks
                /\ LET new == tasks'[Len(tasks')]
                   IN  IF tts.mode = "riesgo"
                       THEN ~(new.text = r.alert_text /\ (new.pc = "interrupt" <=> IsCritical(r)))
                       ELSE ~(new.text = s /\ new.pc = "doSpeak" /\ ~new.critical))

\* C32: a setMode call on the arbiter decides the policy of every result that
\* arrives after it and of no earlier one: an utterance already started under the
\* previous mode is neither stopped nor restarted by the switch, and the Speaking
\* flag, the last spoken text and the last start time are unchanged by setMode.
C32_SetModeNotRetroactive == []C32_JudgedByCurrentMode /\ [][C32_SetModeStep]_vars

\* C32 witness: the only utterance since the start was started in navigation mode,
\* it is still on the speech device with the flag true, and the mode is now hazard.
C32_Witness ==
  /\ tts.mode = "riesgo"
  /\ tts.isSpeaking
  /\ hist.started # <<>>
  /\ hist.started[1].prev = 0
  /\ tts.lastSummary = hist.started[1].text
  /\ tts.lastSummary # ""
  /\ tts.lastSpeakTime = hist.started[1].at
  /\ speech = <<hist.started[1].text>>
  /\ tasks = <<>>

\* a result that is not a critical alert starts nothing
NonCriticalRejected ==
  /\ \A s \in Texts : \A g \in BOOLEAN :
       tts.mode # "riesgo" => ~ENABLED (Result(s, g, NoRiskData) /\ StartsNow)
  /\ \A r \in RiskInputs :
       (tts.mode = "riesgo" /\ ~IsCritical(r)) => ~ENABLED (Result("", FALSE, r) /\ StartsNow)

\* C33: while an utterance started by the arbiter is in flight on the speech device
\* the Speaking flag is true, so every non-critical result arriving during it is
\* rejected by the in-progress guard, also when the utterance was started by a
\* critical alert that interrupted an earlier utterance.
C33_InFlightMeansSpeaking ==
  (speech # <<>> /\ Len(tasks) < MaxTasks) => (tts.isSpeaking /\ NonCriticalRejected)

\* C34 as stated: a critical alert restarts the cooldown: after a critical
\* utterance starts at time t, every non-critical hazard result and every
\* navigation result arriving before t + 3000 ms starts no utterance.
C34_CriticalRestartsCooldown ==
  (hist.critAt # 0 /\ now - hist.critAt < 3000 /\ Len(tasks) < MaxTasks)
    => NonCriticalRejected

\* C34 amended: after a critical utterance starts at time t, every non-critical
\* hazard result and every navigation result arriving before t + 3000 ms starts no
\* utterance, unless reset() was called in between (reset() clears the cooldown).
C34_CriticalRestartsCooldownUntilReset ==
  (/\ hist.started # <<>>
   /\ hist.started[1].critical
   /\ now - hist.started[1].at < 3000
   /\ Len(tasks) < MaxTasks)
    => NonCriticalRejected

\* C34 witness: a critical alert was started less than 3000 ms ago, no earlier than
\* 3000 ms after the utterance before it, its utterance has completed, and the
\* arbiter is idle in hazard mode.
C34_Witness ==
  /\ hist.started # <<>>
  /\ hist.started[1].critical
  /\ hist.started[1].prev > 0
  /\ hist.started[1].at - hist.started[1].prev >= 3000
  /\ now - hist.started[1].at = 500
  /\ tts.mode = "riesgo"
  /\ ~tts.isSpeaking
  /\ speech = <<>>
  /\ tasks = <<>>

\* a socket of session k has opened and no socket of k has closed since
OpenedNoCloseSince(k) ==
  /\ hist.fails[k] = 0
  /\ \E s \in SocketIds :
       /\ socks[s].owner = k
       /\ \/ socks[s].readyState = "OPEN"
          \/ dispatching = s /\ socks[s].failedFrom = "OPEN"

\* every open event sets the attempt counter to zero, and the first close event
\* after an open schedules the reconnect with the base delay, whatever the number
\* of attempts before that open
C35_Step ==
  \A s \in SocketIds :
    /\ SocketOpen(s) => sess'[Owner(s)].reconnectAttempts = 0
    /\ (/\ SocketClose(s)
        /\ sess[Owner(s)].maxReconnectAttempts = DefaultMaxReconnectAttempts
        /\ OpenedNoCloseSince(Owner(s)))
       => /\ Schedules(Owner(s), BaseDelay * 1)
          /\ sess'[Owner(s)].reconnectAttempts = 1

\* C35 amended: the reconnect attempt counter is reset to zero on every successful
\* open, so the cap of five applies to consecutive failed attempts only: on a
\* session on which disconnect() was never called, the next unexpected close after
\* any successful open schedules a reconnect with delay BaseDelay * 1, and a
\* connection that opens and closes again and again is retried without bound.
C35_CounterResetOnOpen == [][C35_Step]_vars

\* the same for every session, whether or not disconnect() was called on it
C35_StepAsStated ==
  \A s \in SocketIds :
    /\ SocketOpen(s) => sess'[Owner(s)].reconnectAttempts = 0
    /\ (SocketClose(s) /\ OpenedNoCloseSince(Owner(s)))
       => /\ Schedules(Owner(s), BaseDelay * 1)
          /\ sess'[Owner(s)].reconnectAttempts = 1

\* C35 as stated: the reconnect attempt counter is reset to zero on every
\* successful open; after any successful open the next unexpected close schedules
\* a reconnect with delay BaseDelay * 1, and a connection that opens and closes
\* again and again is retried without bound.
C35_EveryOpenRearms == [][C35_StepAsStated]_vars

\* C35 witness: the open socket of session 1 has closed unexpectedly, as the first
\* close since it opened, and the reconnect now pending has the base delay and is
\* counted as attempt 1.
C35_Witness ==
  /\ hist.tail = <<"disconnected">>
  /\ hist.fails[1] = 1
  /\ sess[1].reconnectAttempts = 1
  /\ sess[1].maxReconnectAttempts = DefaultMaxReconnectAttempts
  /\ LiveSockets(socks, 1) = {}
  /\ timers = <<[owner |-> 1, delay |-> BaseDelay, held |-> TRUE]>>

\* once disconnect() has set the cap to zero nothing raises it again, and no close
\* event of a socket of that session sets a timer or counts an attempt, the close
\* of a socket that a later connect() created and that opened included
C36_Step ==
  /\ \A k \in SessionIds :
       /\ Disconnect(k) => sess'[k].maxReconnectAttempts = 0
       /\ sess[k].maxReconnectAttempts = 0 => sess'[k].maxReconnectAttempts = 0
  /\ \A s \in SocketIds :
       (SocketClose(s) /\ sess[Owner(s)].maxReconnectAttempts = 0)
         => /\ timers' = timers
            /\ sess'[Owner(s)].reconnectAttempts = sess[Owner(s)].reconnectAttempts
            /\ ~sess'[Owner(s)].reconnectTimer

\* an explicit connect() after disconnect() creates a socket
C36_ConnectStillWorks ==
  \A k \in SessionIds :
    (sess[k].exists /\ sess[k].maxReconnectAttempts = 0)
      => (ENABLED Connect(k) =>
            ENABLED (Connect(k) /\ Cardinality(LiveSockets(socks', k))
                                    = Cardinality(LiveSockets(socks, k)) + 1))

\* C36: once disconnect() has been called on a session, automatic reconnection
\* stays disabled for the rest of the object's life: an explicit connect()
\* afterwards opens a socket, but an unexpected close of that socket schedules no
\* reconnect.
C36_ReconnectStaysDisabled == []C36_ConnectStillWorks /\ [][C36_Step]_vars

\* C36 witness: after disconnect() a connect() created a socket, that socket has
\* opened and then closed through its close event, and no reconnect is pending.
C36_Witness ==
  /\ hist.reopened[1]
  /\ sess[1].maxReconnectAttempts = 0
  /\ sess[1].ws = ClosedSocket
  /\ sess[1].reconnectAttempts = 0
  /\ hist.fails[1] = 1
  /\ wsStatus = "disconnected"
  /\ LiveSockets(socks, 1) = {}
  /\ timers = <<>>

\* the step is the completion of a capture whose photo goes out as a frame
CaptureSendsFrame ==
  /\ CaptureDone("photo")
  /\ \E k \in SessionIds : Len(hist'.wire[k]) = Len(hist.wire[k]) + 1

\* C37: after the real-time session is stopped, a capture that was in flight at
\* the moment of the stop never results in a frame being sent, whether the session
\* stays stopped or a new session is started, and its socket opens, before that
\* capture completes.
C37_StaleCaptureNotSent == [][CaptureSendsFrame => hist.shotBy # 0]_vars

\* the socket of the hook's current session is open and 'connected' is the status
\* the controller has
ConnectedNow ==
  /\ hook.wsRef # 0
  /\ IsOpen(socks, sess[hook.wsRef].ws)
  /\ wsStatus = "connected"

\* C38: once the socket of the current session has opened and reported 'connected',
\* the status the controller sees stays 'connected' until that socket closes or the
\* session is stopped; in particular a late close event of the previous session's
\* socket, after a restart, does not overwrite it with 'disconnected'.
C38_ConnectedUntilCloseOrStop ==
  [][(ConnectedNow /\ wsStatus' # "connected")
       => \/ hook'.wsRef # hook.wsRef
          \/ ~IsOpen(socks', sess[hook.wsRef].ws)]_vars

\* the step is a run of the render loop's callback
LoopStep == \E ready \in BOOLEAN : CaptureLoop(ready)

\* a send comes no sooner than one interval after the send before it; a capture
\* is attempted no sooner than one interval after the attempt before it; and a
\* due slot that finds the video or the canvas not ready is used up without a send
C39_Step ==
  LoopStep =>
    /\ hist'.nFrames # hist.nFrames =>
         /\ hist'.sentAt = now
         /\ hist.sentAt = 0 \/ now - hist.sentAt >= 1000 \div hook.targetFps
    /\ hist'.slotAt # hist.slotAt =>
         hist.slotAt = 0 \/ now - hist.slotAt >= 1000 \div hook.targetFps
    /\ CaptureLoop(FALSE) =>
         /\ hist'.nFrames = hist.nFrames
         /\ (hist.slotAt = 0 \/ now - hist.slotAt >= 1000 \div hook.targetFps)
              => hist'.slotAt = now

\* C39: in the render-loop scheduler of the web client two consecutive frame sends
\* are at least 1000/targetFps ms apart, and a pacing slot in which the video or
\* the canvas is not ready is consumed without a send: the next capture is
\* attempted no earlier than one full interval later.
C39_LoopPacing == [][C39_Step]_vars

\* C39 witness: at two frames per second a frame went out on the open socket, and
\* the slot one interval later found the video not ready: it is used up, nothing
\* was sent, and the loop is armed for the next frame.
C39_Witness ==
  /\ hook.targetFps = 2
  /\ hook.animFrameRef
  /\ hook.wsRef # 0
  /\ hist.wire[hook.wsRef] = <<1>>
  /\ hist.nFrames = 1
  /\ hist.sentAt = Epoch
  /\ hist.slotAt = Epoch + 500
  /\ hook.lastCaptureTime = Epoch + 500
  /\ now = Epoch + 500

\* C40: in the change-announcement policy (speakChanges) an utterance starts only
\* for a result whose has_significant_change flag is true, at least 3000 ms after
\* the start of the previous utterance, and while no utterance is in progress; a
\* result that yields no announcement text leaves the last utterance time
\* unchanged.
C40_ChangesPolicy ==
  \A c \in ChangeInputs :
    Len(tasks) < MaxTasks =>
      /\ ENABLED (SpeakChanges(c) /\ StartsNow)
           => /\ c.has_significant_change
              /\ Elapsed
              /\ speech = <<>>
      /\ AnnouncementText(c) = ""
           => ~ENABLED (SpeakChanges(c) /\ tts' # tts)

====
